---- MODULE Spec2Model ----
(***************************************************************************)
(* NOR image editor of uartcl (src/src/uartcl/nor/patcher.py).             *)
(*                                                                         *)
(* A file is a byte string.  The images handled here are ~1.8 MB, so a     *)
(* file is kept as its length plus the bytes at the offsets the editor can *)
(* read or write (Tracked); every other byte holds the erased NOR value    *)
(* 0xFF and is never written, because no edition flag pattern contains     *)
(* 0xFF and every field write lands on a tracked offset.  Text is a        *)
(* sequence of code points, bytes are numbers in 0..255.                   *)
(***************************************************************************)
EXTENDS Integers, Sequences, FiniteSets, TLC

VARIABLES fs, last, calls

vars == <<fs, last, calls>>

(***************************************************************************)
(* Offsets & constants                                                     *)
(***************************************************************************)
OFFSET_VERSION_1 == \H1C7010
OFFSET_VERSION_2 == \H1C7030
SERIAL_OFFSET    == \H1C7210
MOBO_SN_OFFSET   == \H1C7200
VARIANT_OFFSET   == \H1C7226
WIFI_MAC_OFFSET  == \H1C73C0
LAN_MAC_OFFSET   == \H1C4020

LEN_VERSION == 4
LEN_SERIAL  == 17
LEN_MOBO_SN == 16
LEN_MODEL   == 19
LEN_MAC     == 6

FLAG_SLIM    == <<\H22, \H01, \H01, \H01>>
FLAG_DISC    == <<\H22, \H02, \H01, \H01>>
FLAG_DIGITAL == <<\H22, \H03, \H01, \H01>>

\* the edition names, as code points
NAME_SLIM    == <<115, 108, 105, 109>>
NAME_DISC    == <<100, 105, 115, 99>>
NAME_DIGITAL == <<100, 105, 103, 105, 116, 97, 108>>
NAME_UNKNOWN == <<117, 110, 107, 110, 111, 119, 110>>

\* the dict keeps insertion order: slim, disc, digital
EDITION_TO_FLAG ==
    << [name |-> NAME_SLIM,    flag |-> FLAG_SLIM],
       [name |-> NAME_DISC,    flag |-> FLAG_DISC],
       [name |-> NAME_DIGITAL, flag |-> FLAG_DIGITAL] >>

\* edition in EDITION_TO_FLAG
InEditions(name) == \E k \in 1..Len(EDITION_TO_FLAG) : EDITION_TO_FLAG[k].name = name

\* EDITION_TO_FLAG[edition]
FlagOf(name) ==
    EDITION_TO_FLAG[CHOOSE k \in 1..Len(EDITION_TO_FLAG) : EDITION_TO_FLAG[k].name = name].flag

\* str.lower on the code points A..Z
lower(s) == [i \in 1..Len(s) |-> IF s[i] \in 65..90 THEN s[i] + 32 ELSE s[i]]

(***************************************************************************)
(* Files and the mmap view                                                 *)
(***************************************************************************)
Erased == 255

Range(off, n) == off..(off + n - 1)

\* room for two redundant copies of the flag, right behind flag A
COPY_OFFSET == OFFSET_VERSION_1 + LEN_VERSION
COPY_LEN    == 2 * LEN_VERSION

Tracked ==
    Range(LAN_MAC_OFFSET, LEN_MAC) \cup Range(OFFSET_VERSION_1, LEN_VERSION)
    \cup Range(COPY_OFFSET, COPY_LEN) \cup Range(OFFSET_VERSION_2, LEN_VERSION)
    \cup Range(MOBO_SN_OFFSET, LEN_MOBO_SN) \cup Range(SERIAL_OFFSET, LEN_SERIAL)
    \cup Range(VARIANT_OFFSET, LEN_MODEL) \cup Range(WIFI_MAC_OFFSET, LEN_MAC)

Absent == [exists |-> FALSE, len |-> 0, data |-> [i \in Tracked |-> Erased]]

ByteAt(mm, i) == IF i \in Tracked THEN mm.data[i] ELSE Erased

Ok(v)    == [ok |-> TRUE,  val |-> v, err |-> ""]
Err(v, e) == [ok |-> FALSE, val |-> v, err |-> e]

\* mm.seek(offset); mm.read(length): seek past the end raises, read is cut at the end
_read(mm, offset, length) ==
    IF offset > mm.len
    THEN Err(<<>>, "ValueError")
    ELSE LET n == IF mm.len - offset < length THEN mm.len - offset ELSE length
         IN  Ok([k \in 1..n |-> ByteAt(mm, offset + k - 1)])

RECURSIVE Store(_, _, _, _)
\* data[offset : offset + len(payload)] = payload, from the k-th byte on
Store(data, offset, payload, k) ==
    IF k > Len(payload) THEN data
    ELSE Store([data EXCEPT ![offset + k - 1] = payload[k]], offset, payload, k + 1)

\* mm.seek(offset); mm.write(payload): all of the payload or nothing
_write(mm, offset, payload) ==
    IF offset > mm.len \/ mm.len - offset < Len(payload)
    THEN Err(mm, "ValueError")
    ELSE Ok([mm EXCEPT !.data = Store(@, offset, payload, 1)])

(***************************************************************************)
(* Field codec                                                             *)
(***************************************************************************)
RECURSIVE rstrip(_)
\* bytes.rstrip(b"\x00\xFF")
rstrip(data) ==
    IF Len(data) > 0 /\ data[Len(data)] \in {0, 255}
    THEN rstrip(SubSeq(data, 1, Len(data) - 1))
    ELSE data

\* Decode and strip padding: latin1 maps byte b to code point b
_ascii(data) == [k \in 1..Len(rstrip(data)) |-> rstrip(data)[k]]

\* str.encode("latin1"): code points above 255 raise UnicodeEncodeError
encode_latin1(s) ==
    IF \E k \in 1..Len(s) : s[k] > 255
    THEN Err(<<>>, "UnicodeEncodeError")
    ELSE Ok([k \in 1..Len(s) |-> s[k]])

\* ljust padding with blanks
ljust_blank(b, width) ==
    IF Len(b) >= width THEN b
    ELSE [k \in 1..width |-> IF k <= Len(b) THEN b[k] ELSE 32]

\* bytes.ljust(width, b"\0")
ljust(b, width) ==
    IF Len(b) >= width THEN b
    ELSE [k \in 1..width |-> IF k <= Len(b) THEN b[k] ELSE 0]

HexDigit(n) == IF n < 10 THEN 48 + n ELSE 55 + n

\* bytes.hex().upper(): two digits per byte
hex_upper(data) ==
    [k \in 1..(2 * Len(data)) |->
        LET b == data[(k + 1) \div 2]
        IN  IF k % 2 = 1 THEN HexDigit(b \div 16) ELSE HexDigit(b % 16)]

(***************************************************************************)
(* Edition detector                                                        *)
(***************************************************************************)
\* DetectAt with the names of disc and digital exchanged
DetectAt_swapped(mm, off) ==
    LET flag == _read(mm, off, LEN_VERSION)
    IN  IF ~flag.ok THEN flag
        ELSE IF flag.val = FLAG_DIGITAL THEN Ok(NAME_DISC)
        ELSE IF flag.val = FLAG_DISC THEN Ok(NAME_DIGITAL)
        ELSE IF flag.val = FLAG_SLIM THEN Ok(NAME_SLIM)
        ELSE Ok(<<>>)

\* one round of the loop: the name matched at off, <<>> when none matches
DetectAt(mm, off) ==
    LET flag == _read(mm, off, LEN_VERSION)
    IN  IF ~flag.ok THEN flag
        ELSE IF flag.val = FLAG_DIGITAL THEN Ok(NAME_DIGITAL)
        ELSE IF flag.val = FLAG_DISC THEN Ok(NAME_DISC)
        ELSE IF flag.val = FLAG_SLIM THEN Ok(NAME_SLIM)
        ELSE Ok(<<>>)

\* _detect_edition reading the secondary offset first
_detect_edition_reversed(mm) ==
    LET a == DetectAt(mm, OFFSET_VERSION_2)
    IN  IF ~a.ok \/ a.val # <<>> THEN a
        ELSE LET b == DetectAt(mm, OFFSET_VERSION_1)
             IN  IF ~b.ok \/ b.val # <<>> THEN b
                 ELSE Ok(NAME_UNKNOWN)

_detect_edition(mm) ==
    LET a == DetectAt(mm, OFFSET_VERSION_1)
    IN  IF ~a.ok \/ a.val # <<>> THEN a
        ELSE LET b == DetectAt(mm, OFFSET_VERSION_2)
             IN  IF ~b.ok \/ b.val # <<>> THEN b
                 ELSE Ok(NAME_UNKNOWN)

(***************************************************************************)
(* The file system: two files, "a" and "b"; "l" is a link to "a"           *)
(***************************************************************************)
RealPaths == {"a", "b"}

\* pathlib.Path.resolve
Resolve(p) == IF p = "l" THEN "a" ELSE p

\* open the file and map all of it: a missing file and an empty file both raise
OpenMap(files, p) ==
    IF ~files[Resolve(p)].exists THEN Err(Absent, "FileNotFoundError")
    ELSE IF files[Resolve(p)].len = 0 THEN Err(Absent, "ValueError")
    ELSE Ok(files[Resolve(p)])

\* leaving the with block: the mapped bytes are the file's bytes
CloseMap(files, p, mm) == [files EXCEPT ![Resolve(p)] = mm]

(***************************************************************************)
(* Scanner                                                                 *)
(***************************************************************************)
NoSnapshot ==
    [edition |-> <<>>, console_serial |-> <<>>, mobo_serial |-> <<>>,
     model_number |-> <<>>, wifi_mac |-> <<>>, lan_mac |-> <<>>]

scan_info(files, path) ==
    LET o == OpenMap(files, path)
        mm == o.val
        edition == _detect_edition(mm)
        console == _read(mm, SERIAL_OFFSET, LEN_SERIAL)
        mobo    == _read(mm, MOBO_SN_OFFSET, LEN_MOBO_SN)
        model   == _read(mm, VARIANT_OFFSET, LEN_MODEL)
        wifi    == _read(mm, WIFI_MAC_OFFSET, LEN_MAC)
        lan     == _read(mm, LAN_MAC_OFFSET, LEN_MAC)
    IN  IF ~o.ok THEN Err(NoSnapshot, o.err)
        ELSE IF ~edition.ok THEN Err(NoSnapshot, edition.err)
        ELSE IF ~console.ok THEN Err(NoSnapshot, console.err)
        ELSE IF ~mobo.ok THEN Err(NoSnapshot, mobo.err)
        ELSE IF ~model.ok THEN Err(NoSnapshot, model.err)
        ELSE IF ~wifi.ok THEN Err(NoSnapshot, wifi.err)
        ELSE IF ~lan.ok THEN Err(NoSnapshot, lan.err)
        ELSE Ok([edition        |-> edition.val,
                 console_serial |-> _ascii(console.val),
                 mobo_serial    |-> _ascii(mobo.val),
                 model_number   |-> _ascii(model.val),
                 wifi_mac       |-> hex_upper(wifi.val),
                 lan_mac        |-> hex_upper(lan.val)])

(***************************************************************************)
(* Mutating helpers                                                        *)
(***************************************************************************)
\* _ensure_target copying to dst but handing back src
_ensure_target_src(files, src, dst) ==
    IF dst = "" \/ Resolve(src) = Resolve(dst)
    THEN [ok |-> TRUE, files |-> files, path |-> src, err |-> ""]
    ELSE IF ~files[Resolve(src)].exists
    THEN [ok |-> FALSE, files |-> files, path |-> src, err |-> "FileNotFoundError"]
    ELSE [ok |-> TRUE, files |-> [files EXCEPT ![Resolve(dst)] = files[Resolve(src)]],
          path |-> src, err |-> ""]

\* the caller's "pathlib.Path(dst) if dst else None": "" stands for no dst
_ensure_target(files, src, dst) ==
    IF dst = "" \/ Resolve(src) = Resolve(dst)
    THEN [ok |-> TRUE, files |-> files, path |-> src, err |-> ""]
    ELSE IF ~files[Resolve(src)].exists
    THEN [ok |-> FALSE, files |-> files, path |-> src, err |-> "FileNotFoundError"]
    ELSE [ok |-> TRUE, files |-> [files EXCEPT ![Resolve(dst)] = files[Resolve(src)]],
          path |-> dst, err |-> ""]

\* buf.find(find, pos): the least index at or after pos where find occurs, -1 if none
Find(buf, find, pos) ==
    LET starts == {i \in Tracked : buf.data[i] = find[1]}
        hits == {i \in starts :
                    /\ i >= pos
                    /\ i + Len(find) <= buf.len
                    /\ \A k \in 1..Len(find) : ByteAt(buf, i + k - 1) = find[k]}
    IN  IF hits = {} THEN -1
        ELSE CHOOSE i \in hits : \A j \in hits : i <= j

RECURSIVE ReplaceFrom(_, _, _, _, _)
\* the loop of _replace_all, entered with pos and count
ReplaceFrom(buf, find, replace, pos, count) ==
    LET i == Find(buf, find, pos)
    IN  IF i = -1 THEN [buf |-> buf, count |-> count]
        ELSE ReplaceFrom(_write(buf, i, replace).val, find, replace,
                         i + Len(find), count + 1)

\* _replace_all stopping after the first occurrence
_replace_first(buf, find, replace) ==
    LET i == Find(buf, find, 0)
    IN  IF i = -1 THEN [buf |-> buf, count |-> 0]
        ELSE [buf |-> _write(buf, i, replace).val, count |-> 1]

_replace_all(buf, find, replace) == ReplaceFrom(buf, find, replace, 0, 0)

RECURSIVE SweepFrom(_, _, _)
\* the loop over EDITION_TO_FLAG.values(), entered at the k-th value
SweepFrom(blob, target_flag, k) ==
    IF k > Len(EDITION_TO_FLAG) THEN blob
    ELSE IF EDITION_TO_FLAG[k].flag = target_flag
    THEN SweepFrom(blob, target_flag, k + 1)
    ELSE SweepFrom(_replace_all(blob, EDITION_TO_FLAG[k].flag, target_flag).buf,
                   target_flag, k + 1)

(***************************************************************************)
(* Public API: each returns the files it leaves and how the call ended     *)
(***************************************************************************)
Returned(files)  == [files |-> files, ok |-> TRUE,  err |-> ""]
Raised(files, e) == [files |-> files, ok |-> FALSE, err |-> e]

\* the with block of convert_edition, always writing (no early return)
ConvertMapped_always(mm, name) ==
    LET target_flag == FlagOf(name)
        current == _detect_edition(mm)
        w1 == _write(mm, OFFSET_VERSION_1, target_flag)
        w2 == _write(w1.val, OFFSET_VERSION_2, target_flag)
    IN  IF ~current.ok THEN Err(mm, current.err)
        ELSE IF ~w1.ok THEN Err(mm, w1.err)
        ELSE IF ~w2.ok THEN Err(w1.val, w2.err)
        ELSE Ok(SweepFrom(w2.val, target_flag, 1))

\* the with block of convert_edition on the mapped file: the bytes it leaves
ConvertMapped(mm, name) ==
    LET target_flag == FlagOf(name)
        current == _detect_edition(mm)
        w1 == _write(mm, OFFSET_VERSION_1, target_flag)
        w2 == _write(w1.val, OFFSET_VERSION_2, target_flag)
    IN  IF ~current.ok THEN Err(mm, current.err)
        ELSE IF current.val = name THEN Ok(mm)
        ELSE IF ~w1.ok THEN Err(mm, w1.err)
        \* the first flag is already in the mapped file when the second write raises
        ELSE IF ~w2.ok THEN Err(w1.val, w2.err)
        ELSE Ok(SweepFrom(w2.val, target_flag, 1))

convert_edition(files, src, edition, dst) ==
    IF ~InEditions(lower(edition)) THEN Raised(files, "ValueError")
    ELSE
    LET t == _ensure_target(files, src, dst)
        o == OpenMap(t.files, t.path)
        m == ConvertMapped(o.val, lower(edition))
    IN  IF ~t.ok THEN Raised(t.files, t.err)
        ELSE IF ~o.ok THEN Raised(t.files, o.err)
        ELSE IF ~m.ok THEN Raised(CloseMap(t.files, t.path, m.val), m.err)
        ELSE Returned(CloseMap(t.files, t.path, m.val))

\* SetField accepting one character more than the field holds
SetField_off_by_one(files, src, new_serial, dst, offset, length) ==
    IF ~(1 <= Len(new_serial) /\ Len(new_serial) <= length + 1)
    THEN Raised(files, "ValueError")
    ELSE
    LET enc == encode_latin1(new_serial)
        serial_bytes == ljust(enc.val, length)
        t == _ensure_target(files, src, dst)
        o == OpenMap(t.files, t.path)
        w == _write(o.val, offset, serial_bytes)
    IN  IF ~enc.ok THEN Raised(files, enc.err)
        ELSE IF ~t.ok THEN Raised(t.files, t.err)
        ELSE IF ~o.ok THEN Raised(t.files, o.err)
        ELSE IF ~w.ok THEN Raised(t.files, w.err)
        ELSE Returned(CloseMap(t.files, t.path, w.val))

\* the body shared by the two serial setters
SetField(files, src, new_serial, dst, offset, length) ==
    IF ~(1 <= Len(new_serial) /\ Len(new_serial) <= length)
    THEN Raised(files, "ValueError")
    ELSE
    LET enc == encode_latin1(new_serial)
        serial_bytes == ljust(enc.val, length)
        t == _ensure_target(files, src, dst)
        o == OpenMap(t.files, t.path)
        w == _write(o.val, offset, serial_bytes)
    IN  IF ~enc.ok THEN Raised(files, enc.err)
        ELSE IF ~t.ok THEN Raised(t.files, t.err)
        ELSE IF ~o.ok THEN Raised(t.files, o.err)
        ELSE IF ~w.ok THEN Raised(t.files, w.err)
        ELSE Returned(CloseMap(t.files, t.path, w.val))

set_console_serial(files, src, new_serial, dst) ==
    SetField(files, src, new_serial, dst, SERIAL_OFFSET, LEN_SERIAL)

\* set_mobo_serial with the console serial's length
set_mobo_serial_wide(files, src, new_serial, dst) ==
    SetField(files, src, new_serial, dst, MOBO_SN_OFFSET, LEN_SERIAL)

set_mobo_serial(files, src, new_serial, dst) ==
    SetField(files, src, new_serial, dst, MOBO_SN_OFFSET, LEN_MOBO_SN)

(***************************************************************************)
(* Initial images and the arguments of the calls                           *)
(***************************************************************************)
MaxCalls == 2

FULL_SIZE == WIFI_MAC_OFFSET + LEN_MAC

\* image sizes: empty, cut inside or between the fields, complete, and longer
Sizes ==
    {0, OFFSET_VERSION_1 + 2, OFFSET_VERSION_2 - 1, OFFSET_VERSION_2 + 2,
     SERIAL_OFFSET + 5, WIFI_MAC_OFFSET + 3, FULL_SIZE, FULL_SIZE + 1}

NoFlag == [k \in 1..LEN_VERSION |-> Erased]

FlagBytes == {FLAG_SLIM, FLAG_DISC, FLAG_DIGITAL, NoFlag}

\* what the two copy slots hold: nothing, two patterns side by side, one pattern
\* twice, the target next to another, and a pattern off the 4-byte grid
CopyBytes ==
    {NoFlag \o NoFlag, FLAG_SLIM \o FLAG_DISC, FLAG_DISC \o FLAG_DISC,
     FLAG_DIGITAL \o FLAG_SLIM, <<\H22>> \o FLAG_DISC \o <<\H01, \H01, \H01>>}

\* "PS5TEST", "MOBO12", "CFI-1016A"
SerialText == <<80, 83, 53, 84, 69, 83, 84>>
MoboText   == <<77, 79, 66, 79, 49, 50>>
ModelText  == <<67, 70, 73, 45, 49, 48, 49, 54, 65>>
WifiBytes  == <<\HA1, \HB2, \HC3, \HD4, \HE5, \HF6>>
LanBytes   == <<1, 2, 3, 4, 5, 6>>

\* buf[off : off + len(bytes)] = bytes
Inject(buf, off, bytes) == Store(buf, off, bytes, 1)

\* an erased image of the given size with flags, serials, model and MACs injected
_make_fake_nor(size, flagA, copy, flagB) ==
    LET b0 == [i \in Tracked |-> Erased]
        b1 == Inject(b0, OFFSET_VERSION_1, flagA)
        b2 == Inject(b1, COPY_OFFSET, copy)
        b3 == Inject(b2, OFFSET_VERSION_2, flagB)
        b4 == Inject(b3, SERIAL_OFFSET, SerialText)
        b5 == Inject(b4, MOBO_SN_OFFSET, MoboText)
        b6 == Inject(b5, VARIANT_OFFSET, ModelText)
        b7 == Inject(b6, WIFI_MAC_OFFSET, WifiBytes)
        b8 == Inject(b7, LAN_MAC_OFFSET, LanBytes)
    IN  [exists |-> TRUE, len |-> size,
         data |-> [i \in Tracked |-> IF i < size THEN b8[i] ELSE Erased]]

\* every size, holding a disc image with two stray copies
ImagesAnySize == {_make_fake_nor(n, FLAG_DISC, FLAG_SLIM \o FLAG_DISC, FLAG_DISC) : n \in Sizes}

\* the same without any flag
ImagesNoFlag == {_make_fake_nor(n, NoFlag, NoFlag \o NoFlag, NoFlag) : n \in Sizes}

\* complete images with every combination of flag A, the copies and flag B
ImagesAnyFlags ==
    {_make_fake_nor(FULL_SIZE, fa, c, fb) : fa \in FlagBytes, c \in CopyBytes, fb \in FlagBytes}

\* images cut inside the motherboard serial, inside the console serial, and complete
ImagesSerial ==
    {_make_fake_nor(n, FLAG_DISC, NoFlag \o NoFlag, FLAG_DIGITAL) :
        n \in {MOBO_SN_OFFSET + 5, SERIAL_OFFSET + 5, FULL_SIZE}}

\* "slim", "disc", "digital", "DISC"
EditionArgs == {NAME_SLIM, NAME_DISC, NAME_DIGITAL, <<68, 73, 83, 67>>}

\* "digital", "DISC", "pro"
FewEditionArgs == {NAME_DIGITAL, <<68, 73, 83, 67>>, <<112, 114, 111>>}

Repeat(c, n) == [k \in 1..n |-> c]

\* "NEW1", 16, 17 and 18 letters, "", "A\0", "\xff", a euro sign
SerialArgs ==
    {<<78, 69, 87, 49>>, Repeat(66, LEN_MOBO_SN), Repeat(67, LEN_SERIAL),
     Repeat(68, LEN_SERIAL + 1), <<>>, <<65, 0>>, <<255>>, <<8364>>}

\* "NEW1", "", and one letter more than the field holds
FewSerialArgs(length) == {<<78, 69, 87, 49>>, <<>>, Repeat(68, length + 1)}

\* (src, dst): in place, to a second file, to a link to the source, from the second file
PathArgs == {<<"a", "">>, <<"a", "b">>, <<"a", "l">>, <<"b", "">>}

NoCall ==
    [op |-> "none", src |-> "", arg |-> <<>>, dst |-> "", ok |-> TRUE, err |-> "",
     pre |-> [p \in RealPaths |-> Absent], snap |-> NoSnapshot]

InitWith(images) ==
    /\ \E img \in images : fs = [p \in RealPaths |-> IF p = "a" THEN img ELSE Absent]
    /\ last = NoCall
    /\ calls = 0

\* the call as recorded: its arguments, the files before it and how it ended
Call(op, src, arg, dst, r) ==
    [op |-> op, src |-> src, arg |-> arg, dst |-> dst, ok |-> r.ok, err |-> r.err,
     pre |-> fs, snap |-> NoSnapshot]

ConvertWith(editions) ==
    /\ calls < MaxCalls
    /\ \E sd \in PathArgs, edition \in editions :
          LET r == convert_edition(fs, sd[1], edition, sd[2])
          IN  /\ fs' = r.files
              /\ last' = Call("convert_edition", sd[1], edition, sd[2], r)
    /\ calls' = calls + 1

SetConsoleWith(values) ==
    /\ calls < MaxCalls
    /\ \E sd \in PathArgs, new_serial \in values :
          LET r == set_console_serial(fs, sd[1], new_serial, sd[2])
          IN  /\ fs' = r.files
              /\ last' = Call("set_console_serial", sd[1], new_serial, sd[2], r)
    /\ calls' = calls + 1

SetMoboWith(values) ==
    /\ calls < MaxCalls
    /\ \E sd \in PathArgs, new_serial \in values :
          LET r == set_mobo_serial(fs, sd[1], new_serial, sd[2])
          IN  /\ fs' = r.files
              /\ last' = Call("set_mobo_serial", sd[1], new_serial, sd[2], r)
    /\ calls' = calls + 1

ScanInfo ==
    /\ calls < MaxCalls
    /\ \E path \in {"a", "b"} :
          LET r == scan_info(fs, path)
          IN  last' = [op |-> "scan_info", src |-> path, arg |-> <<>>, dst |-> "",
                       ok |-> r.ok, err |-> r.err, pre |-> fs, snap |-> r.val]
    /\ calls' = calls + 1
    /\ UNCHANGED fs

\* all four operations with a few arguments each, on images of every size
ConvertFew == ConvertWith(FewEditionArgs)

SetConsoleFew == SetConsoleWith(FewSerialArgs(LEN_SERIAL))

SetMoboFew == SetMoboWith(FewSerialArgs(LEN_MOBO_SN))

Init == InitWith(ImagesAnySize)

Next == ConvertFew \/ SetConsoleFew \/ SetMoboFew \/ ScanInfo

Spec == Init /\ [][Next]_vars

\* the edition operations, on complete images with every flag combination
ConvertEdition == ConvertWith(EditionArgs)

InitEdition == InitWith(ImagesAnyFlags \cup ImagesAnySize \cup ImagesNoFlag)

NextEdition == ConvertEdition \/ ScanInfo

SpecEdition == InitEdition /\ [][NextEdition]_vars

\* the serial setters with every serial value
SetConsoleSerial == SetConsoleWith(SerialArgs)

SetMoboSerial == SetMoboWith(SerialArgs)

InitSerial == InitWith(ImagesSerial)

NextSerial == SetConsoleSerial \/ SetMoboSerial \/ ScanInfo

SpecSerial == InitSerial /\ [][NextSerial]_vars

(***************************************************************************)
(* Vocabulary of the properties                                            *)
(***************************************************************************)
Names == {NAME_SLIM, NAME_DISC, NAME_DIGITAL}

PatternOf(name) ==
    IF name = NAME_SLIM THEN FLAG_SLIM
    ELSE IF name = NAME_DISC THEN FLAG_DISC
    ELSE FLAG_DIGITAL

IsMutator(c) == c.op \in {"convert_edition", "set_console_serial", "set_mobo_serial"}

\* no dst, or a dst that resolves to the source
InPlace(c) == c.dst = "" \/ Resolve(c.src) = Resolve(c.dst)

SourceOf(c) == Resolve(c.src)

TargetOf(c) == IF InPlace(c) THEN Resolve(c.src) ELSE Resolve(c.dst)

\* the n bytes of file f at off
Bytes(f, off, n) == [k \in 1..n |-> ByteAt(f, off + k - 1)]

\* pat occurs in file f at offset i
OccursAt(f, pat, i) == i + Len(pat) <= f.len /\ Bytes(f, i, Len(pat)) = pat

Occurs(f, pat) == \E i \in Tracked : OccursAt(f, pat, i)

\* the edition a complete image declares: the primary offset first
Declared(f) ==
    LET a == Bytes(f, OFFSET_VERSION_1, LEN_VERSION)
        b == Bytes(f, OFFSET_VERSION_2, LEN_VERSION)
    IN  IF \E n \in Names : a = PatternOf(n) THEN CHOOSE n \in Names : a = PatternOf(n)
        ELSE IF \E n \in Names : b = PatternOf(n) THEN CHOOSE n \in Names : b = PatternOf(n)
        ELSE NAME_UNKNOWN

\* v followed by NUL bytes up to n
Padded(v, n) == [k \in 1..n |-> IF k <= Len(v) THEN v[k] ELSE 0]

EndsInPadding(v) == Len(v) > 0 /\ v[Len(v)] \in {0, 255}

\* a serial value the setter of a field of n bytes accepts
ValidSerial(v, n) == Len(v) \in 1..n /\ \A k \in 1..Len(v) : v[k] <= 255

\* g is f but for the bytes at the offsets in R
DiffersOnlyIn(g, f, R) ==
    /\ g.exists /\ f.exists /\ g.len = f.len
    /\ \A i \in Tracked \ R : g.data[i] = f.data[i]

\* the offsets in f where some edition's pattern starts
PatternStarts(f) == {j \in Tracked : \E n \in Names : OccursAt(f, PatternOf(n), j)}

\* the offsets a call may write in an image f
EditOffsets(c, f) ==
    IF c.op = "set_console_serial" THEN Range(SERIAL_OFFSET, LEN_SERIAL)
    ELSE IF c.op = "set_mobo_serial" THEN Range(MOBO_SN_OFFSET, LEN_MOBO_SN)
    ELSE Range(OFFSET_VERSION_1, LEN_VERSION) \cup Range(OFFSET_VERSION_2, LEN_VERSION)
         \cup UNION {Range(j, LEN_VERSION) : j \in PatternStarts(f)}

\* the successful call c has left its edits in g, made from the image f
EditsApplied(c, g, f) ==
    IF c.op = "set_console_serial"
    THEN Bytes(g, SERIAL_OFFSET, LEN_SERIAL) = Padded(c.arg, LEN_SERIAL)
    ELSE IF c.op = "set_mobo_serial"
    THEN Bytes(g, MOBO_SN_OFFSET, LEN_MOBO_SN) = Padded(c.arg, LEN_MOBO_SN)
    ELSE IF Declared(f) = lower(c.arg) THEN g = f
    ELSE /\ Bytes(g, OFFSET_VERSION_1, LEN_VERSION) = PatternOf(lower(c.arg))
         /\ Bytes(g, OFFSET_VERSION_2, LEN_VERSION) = PatternOf(lower(c.arg))

\* a successful conversion of a complete image to one of the three editions
Converted ==
    /\ last.op = "convert_edition" /\ last.ok /\ last.arg \in Names
    /\ last.pre[SourceOf(last)].len >= FULL_SIZE

\* no other edition's pattern is left and both canonical offsets hold the target's
Swept ==
    LET f == fs[TargetOf(last)]
    IN  /\ \A n \in Names \ {last.arg} : ~Occurs(f, PatternOf(n))
        /\ Bytes(f, OFFSET_VERSION_1, LEN_VERSION) = PatternOf(last.arg)
        /\ Bytes(f, OFFSET_VERSION_2, LEN_VERSION) = PatternOf(last.arg)

(***************************************************************************)
(* Properties                                                              *)
(***************************************************************************)

\* C1, as stated: after every successful convert_edition of a complete image,
\* whatever its flags were, no non-target pattern is left anywhere and both
\* canonical offsets hold the target pattern.
C1_SweptFromAnyImage == Converted => Swept

\* C1, amended: the same, for the calls that found the image declaring an
\* edition other than the target (a call that finds the target returns at once).
C1_SweptWhenEditionDiffers ==
    (Converted /\ Declared(last.pre[SourceOf(last)]) # last.arg) => Swept

\* C1 witness: a disc/slim image with two stray copies was converted to digital
C1_Witness ==
    /\ Converted /\ last.arg = NAME_DIGITAL
    /\ Bytes(last.pre[SourceOf(last)], OFFSET_VERSION_1, LEN_VERSION) = FLAG_DISC
    /\ Bytes(last.pre[SourceOf(last)], OFFSET_VERSION_2, LEN_VERSION) = FLAG_SLIM
    /\ Bytes(last.pre[SourceOf(last)], COPY_OFFSET, COPY_LEN) = FLAG_SLIM \o FLAG_DISC
    /\ Bytes(fs[TargetOf(last)], COPY_OFFSET, COPY_LEN) = FLAG_DIGITAL \o FLAG_DIGITAL

\* C2: after a successful convert_edition of a complete image to slim, disc or
\* digital, scan_info of the converted image succeeds and reports the target.
C2_ScanReportsTarget ==
    Converted =>
        /\ scan_info(fs, TargetOf(last)).ok
        /\ scan_info(fs, TargetOf(last)).val.edition = last.arg

\* C2 witness: an image of unknown edition was converted and now scans as slim
C2_Witness ==
    /\ Converted /\ last.arg = NAME_SLIM
    /\ Declared(last.pre[SourceOf(last)]) = NAME_UNKNOWN
    /\ scan_info(fs, TargetOf(last)).val.edition = NAME_SLIM

\* the serial the last call set is the one scan_info reports
SerialReadBack ==
    /\ last.ok
    /\ scan_info(fs, TargetOf(last)).ok
    /\ IF last.op = "set_console_serial"
       THEN scan_info(fs, TargetOf(last)).val.console_serial = last.arg
       ELSE scan_info(fs, TargetOf(last)).val.mobo_serial = last.arg

\* a serial setter was called on a complete image with a value of valid length
\* and single-byte characters
ValidSerialSet ==
    /\ last.op \in {"set_console_serial", "set_mobo_serial"}
    /\ ValidSerial(last.arg, IF last.op = "set_console_serial" THEN LEN_SERIAL ELSE LEN_MOBO_SN)
    /\ last.pre[SourceOf(last)].len >= FULL_SIZE

\* C3, as stated: every valid serial value set by set_console_serial or
\* set_mobo_serial is read back unchanged by scan_info.
C3_RoundTripEveryValue == ValidSerialSet => SerialReadBack

\* C3, amended: every valid serial value that does not end in a padding
\* character (U+0000 or U+00FF) is read back unchanged by scan_info.
C3_RoundTripUnpadded == (ValidSerialSet /\ ~EndsInPadding(last.arg)) => SerialReadBack

\* C3 witness: a 17-character console serial replaced the old one and reads back
C3_Witness ==
    /\ ValidSerialSet /\ last.op = "set_console_serial" /\ Len(last.arg) = LEN_SERIAL
    /\ scan_info(last.pre, SourceOf(last)).val.console_serial = SerialText
    /\ scan_info(fs, TargetOf(last)).val.console_serial = last.arg

\* the call failed with ValueError and no file was created or changed
Rejected == ~last.ok /\ last.err = "ValueError" /\ fs = last.pre

BadSerial ==
    \/ last.op = "set_console_serial" /\ ~(Len(last.arg) \in 1..LEN_SERIAL)
    \/ last.op = "set_mobo_serial" /\ ~(Len(last.arg) \in 1..LEN_MOBO_SN)

\* C4, as stated: a serial that is empty or too long, or an edition name that
\* is not one of slim, disc, digital, is rejected before any file is touched.
C4_RejectsNamesOutsideSet ==
    (BadSerial \/ (last.op = "convert_edition" /\ last.arg \notin Names)) => Rejected

\* C4, amended: a serial that is empty or too long, or an edition name whose
\* lower-case form is not one of slim, disc, digital, is rejected before any
\* file is touched.
C4_RejectsInvalidArgument ==
    (BadSerial \/ (last.op = "convert_edition" /\ lower(last.arg) \notin Names)) => Rejected

\* C4 witness: a 17-character motherboard serial was refused, and the distinct
\* destination still does not exist
C4_Witness ==
    /\ last.op = "set_mobo_serial" /\ Len(last.arg) = LEN_MOBO_SN + 1
    /\ last.dst = "b" /\ last.src = "a" /\ last.pre["a"].exists
    /\ ~fs["b"].exists /\ ~last.ok

\* C5: a mutator call that fails leaves the file it edits without any of its
\* field writes: as it was, or as the plain copy of the source.
C5_FailsBeforeAnyWrite ==
    (IsMutator(last) /\ ~last.ok) =>
        /\ fs[TargetOf(last)] \in {last.pre[TargetOf(last)], last.pre[SourceOf(last)]}
        /\ \A p \in RealPaths \ {TargetOf(last)} : fs[p] = last.pre[p]

\* C6: scan_info fails on every image shorter than the end of the Wi-Fi MAC,
\* and a snapshot it returns holds 12 hex characters for each MAC.
C6_NoSnapshotOfShortImage ==
    last.op = "scan_info" =>
        /\ last.pre[SourceOf(last)].len < FULL_SIZE => ~last.ok
        /\ last.ok => Len(last.snap.wifi_mac) = 2 * LEN_MAC /\ Len(last.snap.lan_mac) = 2 * LEN_MAC

\* C7: a mutator call with a distinct destination leaves the source as it was,
\* and the destination is either untouched (the call failed before the copy) or
\* the source's bytes but for the call's edits, which are there on success;
\* without a distinct destination the edits are made to the source itself and
\* no other file is touched.
C7_CopyBeforeEdit ==
    IsMutator(last) =>
        LET s == SourceOf(last)
            t == TargetOf(last)
            image == last.pre[s]
            edited == DiffersOnlyIn(fs[t], image, EditOffsets(last, image))
        IN  /\ \A p \in RealPaths \ {t} : fs[p] = last.pre[p]
            /\ fs[t] = last.pre[t] \/ edited
            /\ last.ok => edited /\ EditsApplied(last, fs[t], image)

\* C7 witness: a serial was set into an existing, different destination file,
\* which is now the source but for the serial, while the source is unchanged
C7_Witness ==
    /\ last.op = "set_console_serial" /\ last.ok /\ ~InPlace(last)
    /\ last.pre[TargetOf(last)].exists
    /\ last.pre[TargetOf(last)] # last.pre[SourceOf(last)]
    /\ fs[SourceOf(last)] = last.pre[SourceOf(last)]
    /\ fs[TargetOf(last)] # fs[SourceOf(last)]

\* the two calls have the same arguments
SameCall(c, d) == c.op = d.op /\ c.src = d.src /\ c.arg = d.arg /\ c.dst = d.dst

\* C8: a convert_edition that finds the image already declaring the target
\* leaves the edited file with exactly the image's bytes and touches no other
\* file; and a convert_edition repeated with the same arguments changes no byte
\* and no scan result.
C8_Idempotent ==
    [][last'.op = "convert_edition" =>
          /\ (/\ _detect_edition(fs[SourceOf(last')]).ok
              /\ fs[SourceOf(last')].len > 0
              /\ _detect_edition(fs[SourceOf(last')]).val = lower(last'.arg))
             => /\ last'.ok
                /\ fs'[TargetOf(last')] = fs[SourceOf(last')]
                /\ \A p \in RealPaths \ {TargetOf(last')} : fs'[p] = fs[p]
          /\ SameCall(last, last')
             => /\ fs' = fs
                /\ scan_info(fs', TargetOf(last')) = scan_info(fs, TargetOf(last'))]_vars

\* C8 witness: a second conversion to slim in a row succeeded and changed nothing
\* in an image whose stray copies an earlier sweep had turned to slim
C8_Witness ==
    /\ calls = 2 /\ last.op = "convert_edition" /\ last.ok /\ last.arg = NAME_SLIM
    /\ fs = last.pre
    /\ Bytes(fs[TargetOf(last)], COPY_OFFSET, COPY_LEN) = FLAG_SLIM \o FLAG_SLIM

\* the serial setter just called wrote inside its own field only
SerialFrame ==
    LET s == SourceOf(last')
        t == TargetOf(last')
    IN  /\ \A p \in RealPaths \ {t} : fs'[p] = fs[p]
        /\ \/ fs'[t] = fs[t]
           \/ DiffersOnlyIn(fs'[t], fs[s], EditOffsets(last', fs[s]))

\* set_mobo_serial has just succeeded in place on the image that the call
\* before, a successful set_console_serial, edited
MoboAfterConsole ==
    /\ last.op = "set_console_serial" /\ last.ok
    /\ last'.op = "set_mobo_serial" /\ last'.ok
    /\ InPlace(last') /\ SourceOf(last') = TargetOf(last)
    /\ scan_info(last.pre, SourceOf(last)).ok

\* the snapshot shows the two new serials and the other fields as before the two calls
BothSerialsShown ==
    scan_info(fs', TargetOf(last')) =
        Ok([scan_info(last.pre, SourceOf(last)).val EXCEPT
               !.console_serial = last.arg, !.mobo_serial = last'.arg])

\* C9, as stated: each serial setter changes bytes of its own field only and no
\* length, and after set_console_serial then set_mobo_serial with any accepted
\* values scan_info shows both values and the other four fields as they were.
C9_BothSerialsAnyValue ==
    [][/\ last'.op \in {"set_console_serial", "set_mobo_serial"} => SerialFrame
       /\ MoboAfterConsole => BothSerialsShown]_vars

\* C9, amended: the same, for values that do not end in a padding character
\* (U+0000 or U+00FF).
C9_BothSerialsUnpadded ==
    [][/\ last'.op \in {"set_console_serial", "set_mobo_serial"} => SerialFrame
       /\ (MoboAfterConsole /\ ~EndsInPadding(last.arg) /\ ~EndsInPadding(last'.arg))
          => BothSerialsShown]_vars

\* C9 witness: a 16-character motherboard serial was set after a 17-character
\* console serial, and the snapshot shows both
C9_Witness ==
    /\ calls = 2 /\ last.op = "set_mobo_serial" /\ last.ok /\ InPlace(last)
    /\ Len(last.arg) = LEN_MOBO_SN
    /\ scan_info(fs, TargetOf(last)).ok
    /\ scan_info(fs, TargetOf(last)).val.mobo_serial = last.arg
    /\ scan_info(fs, TargetOf(last)).val.console_serial = Repeat(67, LEN_SERIAL)
    /\ scan_info(fs, TargetOf(last)).val.edition = NAME_DISC

\* C10: detection reports the edition matched at the primary offset whatever
\* the secondary holds, else the one matched at the secondary, else "unknown"
\* without an error; and scan_info, which reports it, changes no file.
C10_FirstMatchWins ==
    /\ \A p \in RealPaths :
          /\ fs[p].len >= OFFSET_VERSION_2 + LEN_VERSION
             => _detect_edition(fs[p]) = Ok(Declared(fs[p]))
          /\ (/\ fs[p].len >= OFFSET_VERSION_1 + LEN_VERSION
              /\ \E n \in Names : Bytes(fs[p], OFFSET_VERSION_1, LEN_VERSION) = PatternOf(n))
             => _detect_edition(fs[p]) = Ok(Declared(fs[p]))
    /\ last.op = "scan_info" =>
          /\ fs = last.pre
          /\ last.ok => last.snap.edition = Declared(fs[SourceOf(last)])

\* C10 witness: scan_info reported disc for an image with disc at the primary
\* and digital at the secondary offset
C10_Witness ==
    /\ last.op = "scan_info" /\ last.ok /\ last.snap.edition = NAME_DISC
    /\ Bytes(fs[SourceOf(last)], OFFSET_VERSION_1, LEN_VERSION) = FLAG_DISC
    /\ Bytes(fs[SourceOf(last)], OFFSET_VERSION_2, LEN_VERSION) = FLAG_DIGITAL

====
